---- MODULE Spec2Model ----
(***************************************************************************)
(* A model of the RHS panel of mattermost-plugin-openai:                   *)
(*   - the Prompt view (containers/Rhs/views/Prompt/Prompt.view.tsx): the  *)
(*     prompt text area, the chat list held in the store, the chat         *)
(*     completion request and its success / error handlers, and the effect *)
(*     that summarizes the chat;                                           *)
(*   - the Image component: the loading state and the footer that offers   *)
(*     the download / post buttons or the "Image is expired" overlay.      *)
(* Spec is the Prompt view, SpecImage is the Image component.              *)
(***************************************************************************)
EXTENDS Integers, Sequences, FiniteSets, TLC

VARIABLES
    promptValue,        \* useState(''): the text area's value, a sequence of characters
    isChatSummarize,    \* useState(false)
    errorMessage,       \* useState('')
    chats,              \* getAllChats(state).chats: the chat list of the store
    payload,            \* the memoized request payload (useMemo on [promptValue])
    apiStatus,          \* state of the latest getChatCompletion request
    apiArgs,            \* the payload the latest request was made with
    apiData,            \* the response of the latest request (data / error)
    effectDue,          \* the summarize effect's dependencies changed in the last render
    now,                \* Date.now()
    nReq,               \* history: number of chat-completion requests issued so far
    reqOrigin,          \* history: who issued the latest request, "send" or "effect"
    createdAt,          \* Image prop: the optional creation time, in seconds, as a string
    imageNow,           \* new Date().getTime() for the Image component, in ms
    imageIsLoading,     \* Image: useState(true)
    isImageLoadingError, \* Image prop, set through handleSetIsImageLoadingError
    isDownloadInProgress, \* Image: useState(false)
    imagePending,       \* Image: the asynchronous operation under way, if any
    footer,             \* Image: what the last render put in the footer
    renderedAt          \* Image: the time of the last render

promptVars == <<promptValue, isChatSummarize, errorMessage, chats, payload, apiStatus,
                apiArgs, apiData, effectDue, now, nReq, reqOrigin>>
imageVars == <<createdAt, imageNow, imageIsLoading, isImageLoadingError,
               isDownloadInProgress, imagePending, footer, renderedAt>>
vars == <<promptVars, imageVars>>

----------------------------------------------------------------------------
(* Bounds of the model *)

\* Requests the user may start (by sending or by typing); the summarize effect may add one.
MaxRequests == 4
\* Longest createdAt string of the Image model.
MaxCreatedAtLen == 2

NoValue == "undefined"
\* No request made yet: a payload always holds at least the prompt's message.
NoArgs == [messages |-> <<>>]
NoData == [object |-> NoValue]

----------------------------------------------------------------------------
(* Constants of constants/common and constants/configs *)

SummarizationPrompt == <<"Summarize">>
ResponseObject == "chat.completion"
InvalidApiCode == "invalid_api_key"
InvalidOrganizationCode == "invalid_organization"
InvalidApiKeyMessage == "ErrorMessages.invalidApiKey"
InvalidOrganizationIdMessage == "ErrorMessages.invalidOrganizationId"
InternalServerErrorMessage == "ErrorMessages.internalServerError"
MaxTokenLimitToSummarize == 3000

----------------------------------------------------------------------------
(* Inputs *)

\* What the user types: characters are " " (white space) and words. The user does
\* not type the summarization prompt itself.
PromptValues == {<<>>, <<" ">>, <<"a">>, <<"b">>, <<" ", "a", " ">>}

\* What the chat-completion API can answer.
Responses ==
    [id : {"cmpl-1", "cmpl-2"},
     object : {ResponseObject, "error"},
     content : {"reply"},
     role : {"assistant"},
     total_tokens : {MaxTokenLimitToSummarize, MaxTokenLimitToSummarize + 1}]

\* error.data.error?.code of a failed request (NoValue: no error object or no code).
ErrorCodes == {InvalidApiCode, InvalidOrganizationCode, "rate_limit_exceeded", NoValue}

----------------------------------------------------------------------------
(* Pure functions *)

\* String.prototype.trim
RECURSIVE TrimLeft(_)
TrimLeft(s) == IF s # <<>> /\ Head(s) = " " THEN TrimLeft(Tail(s)) ELSE s

RECURSIVE TrimRight(_)
TrimRight(s) ==
    IF s # <<>> /\ s[Len(s)] = " " THEN TrimRight(SubSeq(s, 1, Len(s) - 1)) ELSE s

Trim(s) == TrimRight(TrimLeft(s))

\* parseChatCompletionPayload({prompt, chatHistory})
parseChatCompletionPayload(prompt, chatHistory) ==
    [messages |->
        [i \in 1..Len(chatHistory) |->
            [role |-> chatHistory[i].role, content |-> chatHistory[i].content]]
        \o <<[role |-> "user", content |-> prompt]>>]

\* reducers/PromptChat.reducer
addChats(list, chat) == Append(list, chat)
addSummary(list, chat) == Append(list, chat)
popLastChat(list) == IF list = <<>> THEN list ELSE SubSeq(list, 1, Len(list) - 1)

\* getApiState(serviceName, payload): the request state is looked up by payload.
getApiState(p) == IF apiArgs = p THEN apiStatus ELSE "uninitialized"
isLoading == getApiState(payload) = "pending"

\* useMemo(() => parseChatCompletionPayload(...), [promptValue]) at the next render.
\* payloadMemoOnChats is the variant with the dependencies [promptValue, chats].
payloadMemoOnChats(oldPrompt, newPrompt, newChats) ==
    parseChatCompletionPayload(newPrompt, newChats)
payloadMemo(oldPrompt, newPrompt, newChats) ==
    IF newPrompt # oldPrompt
        THEN parseChatCompletionPayload(newPrompt, newChats)
        ELSE payload

\* ChatInput: the send button works when no request is loading and there is a prompt.
canSend == ~isLoading /\ Trim(promptValue) # <<>>

\* The dependencies [isChatSummarize, promptValue] of the summarize effect changed.
depsChanged(newSummarize, newPrompt) ==
    newSummarize # isChatSummarize \/ newPrompt # promptValue

\* The chat handleSend adds. A chat without the optional isSummary flag has it FALSE.
\* The fields req and origin are history: the request the chat was added for (the
\* request just made by handleSend, the request answered in handleSuccess) and who
\* issued that request.
\* UserChatUntrimmed is the variant that stores the prompt value as typed.
UserChatUntrimmed(prompt, time, req) ==
    [role |-> "user", content |-> prompt, id |-> ToString(time), isSummary |-> FALSE,
     req |-> req, origin |-> "send"]
userChat(prompt, time, req) ==
    [role |-> "user", content |-> Trim(prompt), id |-> ToString(time), isSummary |-> FALSE,
     req |-> req, origin |-> "send"]

\* dispatch(addChats({role: 'user', ...})) of handleSend; SendChatsForgotten is the
\* variant without the dispatch.
SendChatsForgotten(list, prompt, time, req) == list
sendChats(list, prompt, time, req) == addChats(list, userChat(prompt, time, req))

\* The chat handleSuccess adds for an ordinary response, and for a summary.
\* ResponseChatOtherId is the variant that takes the id from another field.
ResponseChatOtherId(data, req, origin) ==
    [id |-> data.object, content |-> data.content, role |-> data.role, isSummary |-> FALSE,
     req |-> req, origin |-> origin]
responseChat(data, req, origin) ==
    [id |-> data.id, content |-> data.content, role |-> data.role, isSummary |-> FALSE,
     req |-> req, origin |-> origin]
summaryChat(data, req, origin) ==
    [id |-> data.id, content |-> data.content, role |-> "assistant", isSummary |-> TRUE,
     req |-> req, origin |-> origin]

\* The switch of handleError; ErrorBannerNoDefault is the variant without the default
\* case, which keeps the message there was.
ErrorBannerNoDefault(code, old) ==
    CASE code = InvalidApiCode -> InvalidApiKeyMessage
      [] code = InvalidOrganizationCode -> InvalidOrganizationIdMessage
      [] OTHER -> old
errorBanner(code, old) ==
    CASE code = InvalidApiCode -> InvalidApiKeyMessage
      [] code = InvalidOrganizationCode -> InvalidOrganizationIdMessage
      [] OTHER -> InternalServerErrorMessage

----------------------------------------------------------------------------
(* The Prompt view *)

PromptInit ==
    /\ promptValue = <<>>
    /\ isChatSummarize = FALSE
    /\ errorMessage = ""
    /\ chats = <<>>
    /\ payload = parseChatCompletionPayload(<<>>, <<>>)
    /\ apiStatus = "uninitialized"
    /\ apiArgs = NoArgs
    /\ apiData = NoData
    /\ effectDue = FALSE
    /\ now = 1
    /\ nReq = 0
    /\ reqOrigin = NoValue

\* makeApiRequestWithCompletionStatus(getChatCompletion, payload)
makeApiRequestWithCompletionStatus(origin) ==
    /\ apiStatus' = "pending"
    /\ apiArgs' = payload
    /\ apiData' = NoData
    /\ nReq' = nReq + 1
    /\ reqOrigin' = origin

\* handleSend: the request, then the user's chat; the render that follows keeps the
\* payload, since promptValue did not change.
handleSend ==
    /\ ~effectDue
    /\ canSend
    /\ nReq < MaxRequests
    /\ makeApiRequestWithCompletionStatus("send")
    /\ chats' = sendChats(chats, promptValue, now, nReq + 1)
    /\ now' = now + 1
    /\ payload' = payloadMemo(promptValue, promptValue, chats')
    /\ UNCHANGED <<promptValue, isChatSummarize, errorMessage, effectDue>>

\* handleOnChange: a change event of the text area.
handleOnChange(value) ==
    /\ ~effectDue
    /\ nReq < MaxRequests
    /\ promptValue' = IF ~isLoading THEN value ELSE promptValue
    /\ payload' = payloadMemo(promptValue, promptValue', chats)
    /\ effectDue' = depsChanged(isChatSummarize, promptValue')
    /\ UNCHANGED <<isChatSummarize, errorMessage, chats, apiStatus, apiArgs, apiData,
                   now, nReq, reqOrigin>>

\* The request succeeds; useApiRequestCompletionState calls handleSuccess when the
\* request state found under the current payload is the successful one.
handleSuccess(data) ==
    /\ errorMessage' = ""
    /\ IF data.object = ResponseObject
         THEN IF isChatSummarize
                THEN /\ chats' = addSummary(chats, summaryChat(data, nReq, reqOrigin))
                     /\ isChatSummarize' = FALSE
                     /\ promptValue' = <<>>
                ELSE /\ chats' = addChats(chats, responseChat(data, nReq, reqOrigin))
                     /\ IF data.total_tokens > MaxTokenLimitToSummarize
                          THEN /\ promptValue' = SummarizationPrompt
                               /\ isChatSummarize' = TRUE
                          ELSE /\ promptValue' = <<>>
                               /\ isChatSummarize' = FALSE
         ELSE /\ promptValue' = <<>>
              /\ UNCHANGED <<chats, isChatSummarize>>

requestSucceeds(data) ==
    /\ ~effectDue
    /\ apiStatus = "pending"
    /\ apiStatus' = "fulfilled"
    /\ apiData' = data
    /\ IF getApiState(payload) = "pending"
         THEN /\ handleSuccess(data)
              /\ payload' = payloadMemo(promptValue, promptValue', chats')
              /\ effectDue' = depsChanged(isChatSummarize', promptValue')
         ELSE UNCHANGED <<promptValue, isChatSummarize, errorMessage, chats, payload,
                          effectDue>>
    /\ UNCHANGED <<apiArgs, now, nReq, reqOrigin>>

\* The request fails; useApiRequestCompletionState calls handleError.
handleError(code) ==
    /\ promptValue' = <<>>
    /\ chats' = popLastChat(chats)
    /\ errorMessage' = errorBanner(code, errorMessage)
    /\ UNCHANGED isChatSummarize

requestFails(code) ==
    /\ ~effectDue
    /\ apiStatus = "pending"
    /\ apiStatus' = "rejected"
    /\ apiData' = [object |-> "error", code |-> code]
    /\ IF getApiState(payload) = "pending"
         THEN /\ handleError(code)
              /\ payload' = payloadMemo(promptValue, promptValue', chats')
              /\ effectDue' = depsChanged(isChatSummarize', promptValue')
         ELSE UNCHANGED <<promptValue, isChatSummarize, errorMessage, chats, payload,
                          effectDue>>
    /\ UNCHANGED <<apiArgs, now, nReq, reqOrigin>>

\* useEffect(..., [isChatSummarize, promptValue]): hit the chat api to get the summary.
summarizeEffect ==
    /\ effectDue
    /\ effectDue' = FALSE
    /\ IF isChatSummarize /\ promptValue = SummarizationPrompt
         THEN makeApiRequestWithCompletionStatus("effect")
         ELSE UNCHANGED <<apiStatus, apiArgs, apiData, nReq, reqOrigin>>
    /\ UNCHANGED <<promptValue, isChatSummarize, errorMessage, chats, payload, now>>

----------------------------------------------------------------------------
(* The Image component *)

Digits == <<"0", "1", "2", "3", "4", "5", "6", "7", "8", "9">>
IsDigit(c) == \E d \in 1..10 : Digits[d] = c
DigitValue(c) == (CHOOSE d \in 1..10 : Digits[d] = c) - 1

\* Number.prototype.toString: how a creation time in seconds becomes the createdAt prop.
RECURSIVE Decimal(_)
Decimal(n) == IF n < 10 THEN <<Digits[n + 1]>> ELSE Append(Decimal(n \div 10), Digits[(n % 10) + 1])

\* parseInt(s, 10): the value of the leading digits, NaN when there is none.
RECURSIVE parseDigits(_, _)
parseDigits(s, acc) ==
    IF s # <<>> /\ IsDigit(Head(s))
        THEN parseDigits(Tail(s), (acc * 10) + DigitValue(Head(s)))
        ELSE acc
parseInt(s) ==
    IF s # <<>> /\ IsDigit(Head(s))
        THEN [nan |-> FALSE, value |-> parseDigits(s, 0)]
        ELSE [nan |-> TRUE, value |-> 0]

\* The optional prop createdAt: absent, or a string.
NoCreatedAt == [present |-> FALSE, text |-> <<>>]
CreatedAtOf(text) == [present |-> TRUE, text |-> text]

\* 55 minutes in milliseconds
ExpiryMs == 55 * 60 * 1000

\* isImageExpired(): a comparison with NaN is false. IsImageExpiredAfterAnHour is the
\* variant without the 5 minutes of buffer.
IsImageExpiredAfterAnHour(created, time) ==
    LET p == parseInt(IF created.present THEN created.text ELSE <<"0">>)
    IN  ~p.nan /\ ((p.value * 1000) + (60 * 60 * 1000)) < time
isImageExpired(created, time) ==
    LET p == parseInt(IF created.present THEN created.text ELSE <<"0">>)
    IN  ~p.nan /\ ((p.value * 1000) + ExpiryMs) < time

\* The footer of the JSX: nothing while loading, else the overlay or the two buttons.
imageFooter(loading, loadingError, created, time) ==
    IF loading THEN "none"
    ELSE IF isImageExpired(created, time) \/ loadingError THEN "Image is expired"
    ELSE "buttons"

\* A render of the component with the new state, at the current time.
render(loading, loadingError) ==
    /\ footer' = imageFooter(loading, loadingError, createdAt, imageNow)
    /\ renderedAt' = imageNow

\* Creation times of the model: the numbers of at most MaxCreatedAtLen digits 0, 1, 9.
RECURSIVE Pow10(_)
Pow10(k) == IF k = 0 THEN 1 ELSE 10 * Pow10(k - 1)
SecondsValues ==
    {n \in 0..(Pow10(MaxCreatedAtLen) - 1) :
        \A i \in 1..Len(Decimal(n)) : Decimal(n)[i] \in {"0", "1", "9"}}
\* Times of the model: the start of the epoch and both sides of every expiry time.
NowValues ==
    {0} \cup {(n * 1000) + ExpiryMs + d : n \in SecondsValues, d \in {0, 1}}

ImageInit ==
    /\ createdAt \in {NoCreatedAt} \cup {CreatedAtOf(Decimal(n)) : n \in SecondsValues}
    /\ imageNow \in NowValues
    /\ imageIsLoading = TRUE
    /\ isImageLoadingError \in BOOLEAN
    /\ isDownloadInProgress = FALSE
    /\ imagePending = "none"
    /\ footer = imageFooter(TRUE, isImageLoadingError, createdAt, imageNow)
    /\ renderedAt = imageNow

\* Time passes; nothing renders the component again.
tick ==
    /\ \E t \in NowValues : t > imageNow /\ imageNow' = t
    /\ UNCHANGED <<createdAt, imageIsLoading, isImageLoadingError, isDownloadInProgress,
                   imagePending, footer, renderedAt>>

\* onLoad of the image
onLoad ==
    /\ imageIsLoading
    /\ imageIsLoading' = FALSE
    /\ render(FALSE, isImageLoadingError)
    /\ UNCHANGED <<createdAt, imageNow, isImageLoadingError, isDownloadInProgress,
                   imagePending>>

\* onError of the image
onError ==
    /\ imageIsLoading
    /\ ~isImageLoadingError
    /\ isImageLoadingError' = TRUE
    /\ imageIsLoading' = FALSE
    /\ render(FALSE, TRUE)
    /\ UNCHANGED <<createdAt, imageNow, isDownloadInProgress, imagePending>>

\* handleDownloadImage up to its first await; the button is there only in the footer.
handleDownloadImage ==
    /\ footer = "buttons"
    /\ ~isDownloadInProgress
    /\ isDownloadInProgress' = TRUE
    /\ imagePending' = "download"
    /\ render(imageIsLoading, isImageLoadingError)
    /\ UNCHANGED <<createdAt, imageNow, imageIsLoading, isImageLoadingError>>

\* handleDownloadImage after the blob arrived
downloadDone ==
    /\ imagePending = "download"
    /\ isDownloadInProgress' = FALSE
    /\ imagePending' = "none"
    /\ render(imageIsLoading, isImageLoadingError)
    /\ UNCHANGED <<createdAt, imageNow, imageIsLoading, isImageLoadingError>>

\* handleCreatingPostInCurrentChannel
handleCreatingPostInCurrentChannel ==
    /\ footer = "buttons"
    /\ ~isDownloadInProgress
    /\ isDownloadInProgress' = TRUE
    /\ imagePending' = "post"
    /\ render(imageIsLoading, isImageLoadingError)
    /\ UNCHANGED <<createdAt, imageNow, imageIsLoading, isImageLoadingError>>

\* The postImageToChannel request succeeds: handleSuccess of the Image component.
postDone ==
    /\ imagePending = "post"
    /\ isDownloadInProgress' = FALSE
    /\ imagePending' = "none"
    /\ render(imageIsLoading, isImageLoadingError)
    /\ UNCHANGED <<createdAt, imageNow, imageIsLoading, isImageLoadingError>>

\* The postImageToChannel request fails: the component has no handler for it.
postFailed ==
    /\ imagePending = "post"
    /\ imagePending' = "none"
    /\ UNCHANGED <<createdAt, imageNow, imageIsLoading, isImageLoadingError,
                   isDownloadInProgress, footer, renderedAt>>

\* The Image component is not mounted while the Prompt view is observed.
ImageIdle ==
    /\ createdAt = NoCreatedAt
    /\ imageNow = 0
    /\ imageIsLoading = TRUE
    /\ isImageLoadingError = FALSE
    /\ isDownloadInProgress = FALSE
    /\ imagePending = "none"
    /\ footer = "none"
    /\ renderedAt = 0

Init == PromptInit /\ ImageIdle

Next ==
    \/ handleSend /\ UNCHANGED imageVars
    \/ \E value \in PromptValues : handleOnChange(value) /\ UNCHANGED imageVars
    \/ \E code \in ErrorCodes : requestFails(code) /\ UNCHANGED imageVars
    \/ \E data \in Responses : requestSucceeds(data) /\ UNCHANGED imageVars
    \/ summarizeEffect /\ UNCHANGED imageVars

Spec == Init /\ [][Next]_vars

InitImage == PromptInit /\ ImageInit

NextImage ==
    \/ tick /\ UNCHANGED promptVars
    \/ onLoad /\ UNCHANGED promptVars
    \/ onError /\ UNCHANGED promptVars
    \/ handleDownloadImage /\ UNCHANGED promptVars
    \/ downloadDone /\ UNCHANGED promptVars
    \/ handleCreatingPostInCurrentChannel /\ UNCHANGED promptVars
    \/ postDone /\ UNCHANGED promptVars
    \/ postFailed /\ UNCHANGED promptVars

SpecImage == InitImage /\ [][NextImage]_vars

----------------------------------------------------------------------------
(* Properties *)

Last(list) == list[Len(list)]
Front(list) == SubSeq(list, 1, Len(list) - 1)
AllSpaces(s) == \A i \in 1..Len(s) : s[i] = " "

\* c is s without the white space at its two ends.
IsTrimOf(c, s) ==
    /\ c = <<>> \/ (c[1] # " " /\ c[Len(c)] # " ")
    /\ \E i \in 0..Len(s) :
        /\ i + Len(c) <= Len(s)
        /\ SubSeq(s, i + 1, i + Len(c)) = c
        /\ AllSpaces(SubSeq(s, 1, i))
        /\ AllSpaces(SubSeq(s, i + Len(c) + 1, Len(s)))

\* A step that issues a request from handleSend; a step in which the request in
\* flight succeeds; one in which it fails.
SendStep == nReq' = nReq + 1 /\ reqOrigin' = "send"
SuccessStep == apiStatus = "pending" /\ apiStatus' = "fulfilled"
FailureStep == apiStatus = "pending" /\ apiStatus' = "rejected"
\* The list only grew by one chat at its end.
AppendedOne == Len(chats') = Len(chats) + 1 /\ Front(chats') = chats

\* The step of handleSend issues the request and appends exactly one chat, the user's.
C1_SendAppends ==
    [][SendStep =>
        /\ apiStatus' = "pending"
        /\ AppendedOne
        /\ Last(chats').role = "user"
        /\ IsTrimOf(Last(chats').content, promptValue)]_vars
\* While the request of a handleSend is in flight its user message ends the list.
C1_UserMessageInList ==
    (apiStatus = "pending" /\ reqOrigin = "send") =>
        /\ chats # <<>>
        /\ Last(chats).role = "user"
        /\ Last(chats).req = nReq
        /\ IsTrimOf(Last(chats).content, promptValue)
\* C1: every handleSend appends exactly one chat, of role 'user' and with the trimmed
\* prompt value as content, in the step that issues the request; so as long as that
\* request is in flight (the states in which its success or error handler runs) the
\* last chat of the list is that request's user message.
C1_UserMessageBeforeResponse == C1_SendAppends /\ []C1_UserMessageInList
C1_Witness ==
    /\ apiStatus = "pending"
    /\ reqOrigin = "send"
    /\ promptValue = <<" ", "a", " ">>
    /\ Last(chats).content = <<"a">>
    /\ Len(chats) = 3

\* The banner the claim gives for an error code.
C2_BannerOf(code) ==
    IF code = InvalidApiCode THEN InvalidApiKeyMessage
    ELSE IF code = InvalidOrganizationCode THEN InvalidOrganizationIdMessage
    ELSE InternalServerErrorMessage
C3_Seconds ==
    IF createdAt.present
        THEN CHOOSE n \in SecondsValues : Decimal(n) = createdAt.text
        ELSE 0
C3_Expired == ((C3_Seconds * 1000) + (55 * 60 * 1000) < renderedAt) \/ isImageLoadingError
C4_AppendOrPop ==
    [][chats' = chats \/ AppendedOne \/ (chats # <<>> /\ chats' = Front(chats))]_vars
\* Every chat of role 'assistant' directly follows the user message of its request.
C4_EveryReplyAfterItsUserMessage ==
    \A i \in 1..Len(chats) :
        chats[i].role = "assistant" =>
            /\ i > 1
            /\ chats[i - 1].role = "user"
            /\ chats[i - 1].req = chats[i].req
\* C4 (as stated): the list changes only by an append at its end or by the removal of
\* its last chat, and each stored assistant reply comes directly after the user message
\* of the request it answers.
C4_AppendOrderAsStated == C4_AppendOrPop /\ []C4_EveryReplyAfterItsUserMessage
\* Every assistant chat that is not a summary directly follows its request's user message.
C4_ReplyAfterItsUserMessage ==
    \A i \in 1..Len(chats) :
        (chats[i].role = "assistant" /\ ~chats[i].isSummary) =>
            /\ i > 1
            /\ chats[i - 1].role = "user"
            /\ chats[i - 1].req = chats[i].req
\* C4 (amended): the list changes only by an append at its end or by the removal of its
\* last chat, and each stored assistant reply that is not a summary comes directly
\* after the user message of the request it answers.
C4_AppendOrder == C4_AppendOrPop /\ []C4_ReplyAfterItsUserMessage
C4_Witness ==
    /\ Len(chats) = 4
    /\ chats[2].role = "assistant" /\ ~chats[2].isSummary
    /\ chats[3].isSummary
    /\ chats[4].role = "user"

\* C5: while a request is loading the payload is the one the request was made with and
\* the prompt value is the prompt of that payload, whatever change events arrive and
\* although the chat list has changed since the payload was computed.
C5_PayloadConstant ==
    apiStatus = "pending" =>
        /\ payload = apiArgs
        /\ isLoading
        /\ Last(payload.messages).content = promptValue
C5_Witness ==
    /\ apiStatus = "pending"
    /\ reqOrigin = "send"
    /\ promptValue = <<"a">>
    /\ Len(chats) = 3
    /\ payload = parseChatCompletionPayload(promptValue, Front(chats))
    /\ payload # parseChatCompletionPayload(promptValue, chats)

C7_Summarization ==
    [][/\ (SuccessStep /\ reqOrigin = "send" /\ apiData'.object = ResponseObject
            /\ apiData'.total_tokens > MaxTokenLimitToSummarize) =>
            (promptValue' = SummarizationPrompt /\ isChatSummarize' /\ effectDue')
       /\ (effectDue /\ isChatSummarize /\ promptValue = SummarizationPrompt) =>
            (nReq' = nReq + 1 /\ reqOrigin' = "effect" /\ apiStatus' = "pending"
                /\ ~effectDue')
       /\ (SuccessStep /\ reqOrigin = "effect" /\ apiData'.object = ResponseObject) =>
            (AppendedOne /\ Last(chats').isSummary /\ Last(chats').role = "assistant"
                /\ ~isChatSummarize' /\ promptValue' = <<>>)]_vars

\* C8: when a request fails the prompt value is cleared and the chat removed from the
\* list is the user message handleSend appended for that request.
C8_FailureRemovesOwnUserMessage ==
    [][FailureStep =>
        /\ promptValue' = <<>>
        /\ chats # <<>>
        /\ chats' = Front(chats)
        /\ Last(chats).role = "user"
        /\ Last(chats).req = nReq]_vars

\* C9: isChatSummarize is true only while a summarization request is pending (about to
\* be issued by the effect) or in flight, and no response to a request sent by the user
\* is stored as a summary.
C9_SummarizeOnlyDuringSummarization ==
    /\ isChatSummarize =>
        (effectDue \/ (apiStatus = "pending" /\ reqOrigin = "effect"))
    /\ \A i \in 1..Len(chats) : chats[i].isSummary => chats[i].origin = "effect"

====
